---- MODULE Spec2Model ----
(***************************************************************************)
(* Model of pyvolt/measurement.py: the Measurement objects, the            *)
(* MeasurementSet lists that reference them, and the operations of         *)
(* MeasurementSet (population, live update, noise injection, weights and   *)
(* covariances, vector assembly, sorting, merging).                        *)
(*                                                                         *)
(* Numbers.  Python floats are modelled as exact rationals, written        *)
(* (num/den) * 10^exp in a unique normal form (den > 0 and coprime to 10,  *)
(* num not divisible by 10, gcd(num, den) = 1, zero is 0/1 * 10^0).  The   *)
(* decimal exponent keeps 10^-6, its square and its inverse square inside  *)
(* the integers TLC computes with.  Rounding is not modelled.              *)
(***************************************************************************)
EXTENDS Integers, Sequences, FiniteSets, TLC

(***************************************************************************)
(* Exact arithmetic                                                        *)
(***************************************************************************)
RECURSIVE Gcd(_, _)
Gcd(a, b) == IF b = 0 THEN a ELSE Gcd(b, a % b)

Abs(n) == IF n < 0 THEN -n ELSE n

RECURSIVE Pow10(_)
Pow10(k) == IF k = 0 THEN 1 ELSE 10 * Pow10(k - 1)

\* (n/d) * 10^e with every factor 2 and 5 moved out of the denominator d > 0
RECURSIVE ClearDen(_, _, _)
ClearDen(n, d, e) ==
    IF d % 2 = 0 THEN ClearDen(5 * n, d \div 2, e - 1)
    ELSE IF d % 5 = 0 THEN ClearDen(2 * n, d \div 5, e - 1)
    ELSE <<n, d, e>>

\* (n/d) * 10^e with every factor 10 moved out of the numerator n # 0
RECURSIVE StripNum(_, _, _)
StripNum(n, d, e) ==
    IF n % 10 = 0 THEN StripNum(n \div 10, d, e + 1) ELSE <<n, d, e>>

\* the number (n/d) * 10^e in normal form, d # 0
Q(n, d, e) ==
    IF n = 0 THEN [num |-> 0, den |-> 1, exp |-> 0]
    ELSE LET sn == IF d < 0 THEN -n ELSE n
             sd == Abs(d)
             g0 == Gcd(Abs(sn), sd)
             c  == ClearDen(sn \div g0, sd \div g0, e)
             s  == StripNum(c[1], c[2], c[3])
             g  == Gcd(Abs(s[1]), s[2])
         IN  [num |-> s[1] \div g, den |-> s[2] \div g, exp |-> s[3]]

Num(n) == Q(n, 1, 0)

\* the number n/d written in normal form: d > 0 coprime to 10 and to n, and
\* n not divisible by 10
Frac(n, d) == [num |-> n, den |-> d, exp |-> 0]

Zero == Frac(0, 1)
One == Frac(1, 1)

IsNumber(x) == DOMAIN x = {"num", "den", "exp"}

Mul(a, b) == Q(a.num * b.num, a.den * b.den, a.exp + b.exp)

Div(a, b) == Q(a.num * b.den, a.den * b.num, a.exp - b.exp)

Neg(a) == [a EXCEPT !.num = -a.num]

Add(a, b) ==
    IF a.num = 0 THEN b
    ELSE IF b.num = 0 THEN a
    ELSE LET e == IF a.exp < b.exp THEN a.exp ELSE b.exp
         IN  Q(a.num * Pow10(a.exp - e) * b.den + b.num * Pow10(b.exp - e) * a.den,
               a.den * b.den, e)

Less(a, b) == Add(a, Neg(b)).num < 0

AbsQ(a) == [a EXCEPT !.num = Abs(a.num)]

\* Python's x ** 2 and x ** (-2)
Square(a) == Mul(a, a)

InvSquare(a) == Div(One, Mul(a, a))

(***************************************************************************)
(* np.cos and np.sin.  The cosine and sine of a nonzero rational are       *)
(* irrational, so amp * cos(theta) is kept as a term, normalised by the    *)
(* identities that make two such products equal: a zero amplitude,         *)
(* cos(0) = 1, sin(0) = 0, cos(-t) = cos(t), sin(-t) = -sin(t).            *)
(***************************************************************************)
TimesCos(amp, theta) ==
    IF amp.num = 0 THEN Zero
    ELSE IF theta.num = 0 THEN amp
    ELSE [fn |-> "cos", amp |-> amp, arg |-> AbsQ(theta)]

TimesSin(amp, theta) ==
    IF amp.num = 0 \/ theta.num = 0 THEN Zero
    ELSE [fn |-> "sin", amp |-> IF theta.num < 0 THEN Neg(amp) ELSE amp,
          arg |-> AbsQ(theta)]

(***************************************************************************)
(* Enumerations and topology elements                                      *)
(***************************************************************************)
ElemType == {"Node", "Branch"}

MeasType ==
    {"V_mag", "Sinj_real", "Sinj_imag", "S1_real", "S1_imag", "I_mag",
     "Vpmu_mag", "Vpmu_phase", "Ipmu_mag", "Ipmu_phase", "S2_real", "S2_imag",
     "Ipmu_inj_mag", "Ipmu_inj_phase"}

\* The topology elements the measurements point to, named by their uuid.
Nodes == {"N1", "N2"}

Branches == {"B1", "B2"}

Elements == Nodes \cup Branches

KindOf(e) == IF e \in Nodes THEN "Node" ELSE "Branch"

\* The quantity kinds read_measurements_from_file creates on an element of
\* each kind
KindsOn(element_type) ==
    IF element_type = "Node"
    THEN {"V_mag", "Sinj_real", "Sinj_imag", "Vpmu_mag", "Vpmu_phase",
          "Ipmu_inj_mag", "Ipmu_inj_phase"}
    ELSE {"I_mag", "S1_real", "S1_imag", "S2_real", "S2_imag", "Ipmu_mag", "Ipmu_phase"}

\* The base quantities of the elements; baseVoltage is held as its
\* coefficient of sqrt(3)
BaseTable ==
    [e \in Elements |->
       IF e \in {"N1", "B1"}
       THEN [baseVoltage |-> [sqrt3coef |-> Num(2)], base_current |-> Num(3),
             base_apparent_power |-> Num(15)]
       ELSE [baseVoltage |-> [sqrt3coef |-> Num(7)], base_current |-> Num(4),
             base_apparent_power |-> Num(6)]]

baseVoltage(e) == BaseTable[e].baseVoltage

\* x / np.sqrt(3) for x = c * sqrt(3)
DivSqrt3(x) == x.sqrt3coef

base_current(e) == BaseTable[e].base_current

base_apparent_power(e) == BaseTable[e].base_apparent_power

(***************************************************************************)
(* State                                                                   *)
(*   heap : the Measurement objects ever constructed, by object identity   *)
(*          (the index in the sequence)                                    *)
(*   sets : the MeasurementSet objects; sets[s] is the list                *)
(*          self.measurements of set s, a sequence of object identities    *)
(*   ret  : the last call, its arguments and what it returned or raised    *)
(***************************************************************************)
VARIABLES heap, sets, ret

vars == <<heap, sets, ret>>

\* Bounds of the model: the number of Measurement objects constructed, per
\* specification, and the number of MeasurementSet objects
MaxUpdMeas == 2

MaxNoiseMeas == 2

MaxSortMeas == 2

MaxVecMeas == 3

MaxActMeas == 2

MaxRoundMeas == 1

MaxShareMeas == 1

MaxMergeMeas == 2

MaxCreateMeas == 2

MaxFrameMeas == 2

\* magnitude and phase pairs that group population creates
MaxGroupPairs == 2

MaxSets == 3

Range(f) == {f[i] : i \in DOMAIN f}

\* Measurement.__init__ once both isinstance checks have passed
Measurement(element, element_type, meas_type, meas_value_ideal, unc) ==
    [element          |-> element,
     element_type     |-> element_type,
     meas_type        |-> meas_type,
     meas_value_ideal |-> meas_value_ideal,
     unc              |-> unc,
     std_dev          |-> Zero,
     std_dev_act      |-> Zero,
     meas_value       |-> Zero,
     meas_value_act   |-> Zero]

\* MeasurementSet.__init__ of the first set
Init ==
    /\ heap = <<>>
    /\ sets = <<(<<>>)>>
    /\ ret = [op |-> "init"]

\* The measurements of set s, in list order
Meas(s) == [k \in 1..Len(sets[s]) |-> heap[sets[s][k]]]

(***************************************************************************)
(* create_measurement                                                      *)
(***************************************************************************)
\* What ret records of a call of create_measurement
CreateCall(s, element, element_type, meas_type, raised) ==
    [op |-> "create_measurement", set |-> s, element |-> element,
     element_type |-> element_type, meas_type |-> meas_type, raised |-> raised]

\* Mutant: the measurement is constructed without the two isinstance checks
create_measurement_Unchecked(s, element, element_type, meas_type, meas_value_ideal, unc) ==
    /\ heap' = Append(heap, Measurement(element, element_type, meas_type,
                                        meas_value_ideal, unc))
    /\ sets' = [sets EXCEPT ![s] = Append(@, Len(heap) + 1)]
    /\ ret' = CreateCall(s, element, element_type, meas_type, FALSE)

create_measurement(s, element, element_type, meas_type, meas_value_ideal, unc) ==
    /\ IF element_type \notin ElemType \/ meas_type \notin MeasType
       THEN /\ ret' = CreateCall(s, element, element_type, meas_type, TRUE)
            /\ UNCHANGED <<heap, sets>>
       ELSE /\ heap' = Append(heap, Measurement(element, element_type, meas_type,
                                                 meas_value_ideal, unc))
            /\ sets' = [sets EXCEPT ![s] = Append(@, Len(heap) + 1)]
            /\ ret' = CreateCall(s, element, element_type, meas_type, FALSE)

(***************************************************************************)
(* update_measurement                                                      *)
(***************************************************************************)
\* Mutant: the element of the measurement is not compared
OnElement_Any(meas, element_uuid) == TRUE

\* The test "meas.element.uuid == element_uuid"
OnElement(meas, element_uuid) == meas.element = element_uuid

\* Mutant: the voltage branch without its special case for V_mag
VoltageBranch_ExactOnly(meas_type, meas) ==
    meas_type = "Vpmu_mag" /\ meas.meas_type = "Vpmu_mag"

\* The conditions of the four branches, for the incoming kind meas_type
VoltageBranch(meas_type, meas) ==
    meas_type = "Vpmu_mag" /\ (meas.meas_type = "Vpmu_mag" \/ meas.meas_type = "V_mag")

CurrentBranch(meas_type, meas) ==
    meas_type = "Ipmu_mag" /\ (meas.meas_type = "Ipmu_mag" \/ meas.meas_type = "I_mag"
                               \/ meas.meas_type = "Ipmu_inj_mag")

PowerBranch(meas_type, meas) ==
    meas_type = meas.meas_type /\ (meas_type = "S1_real" \/ meas_type = "S1_imag"
                                   \/ meas_type = "Sinj_imag" \/ meas_type = "Sinj_imag")

PhaseBranch(meas_type, meas) ==
    meas_type = meas.meas_type /\ (meas_type = "Vpmu_phase" \/ meas_type = "Ipmu_phase"
                                   \/ meas_type = "Ipmu_inj_phase")

\* The bases the three converting branches divide or multiply by
VoltageBase(element) == DivSqrt3(baseVoltage(element))

CurrentBase(element) == base_current(element)

PowerBase(element) == Div(base_apparent_power(element), Num(3))

\* Mutant: the update also clears the standard deviation of the measurement
WriteConverted_ClearsStd(meas, meas_data, value_in_pu, base) ==
    IF ~value_in_pu
    THEN [meas EXCEPT !.meas_value = Div(meas_data, base), !.meas_value_act = meas_data,
                      !.std_dev = Zero]
    ELSE [meas EXCEPT !.meas_value = meas_data, !.meas_value_act = Mul(meas_data, base),
                      !.std_dev = Zero]

\* "if not value_in_pu: ... else: ..." and the two assignments that follow
WriteConverted(meas, meas_data, value_in_pu, base) ==
    IF ~value_in_pu
    THEN [meas EXCEPT !.meas_value = Div(meas_data, base), !.meas_value_act = meas_data]
    ELSE [meas EXCEPT !.meas_value = meas_data, !.meas_value_act = Mul(meas_data, base)]

\* The body of the loop of update_measurement for one measurement
UpdateOne(meas, element_uuid, meas_type, meas_data, value_in_pu) ==
    IF ~OnElement(meas, element_uuid) THEN meas
    ELSE IF VoltageBranch(meas_type, meas)
    THEN WriteConverted(meas, meas_data, value_in_pu, VoltageBase(meas.element))
    ELSE IF CurrentBranch(meas_type, meas)
    THEN WriteConverted(meas, meas_data, value_in_pu, CurrentBase(meas.element))
    ELSE IF PowerBranch(meas_type, meas)
    THEN WriteConverted(meas, meas_data, value_in_pu, PowerBase(meas.element))
    ELSE IF PhaseBranch(meas_type, meas)
    THEN [meas EXCEPT !.meas_value = meas_data, !.meas_value_act = meas_data]
    ELSE meas

\* The loop "for meas in self.measurements", from list position k on
RECURSIVE UpdateLoop(_, _, _, _, _, _, _)
UpdateLoop(h, ids, k, element_uuid, meas_type, meas_data, value_in_pu) ==
    IF k > Len(ids) THEN h
    ELSE UpdateLoop([h EXCEPT ![ids[k]] = UpdateOne(h[ids[k]], element_uuid, meas_type,
                                                    meas_data, value_in_pu)],
                    ids, k + 1, element_uuid, meas_type, meas_data, value_in_pu)

update_measurement(s, element_uuid, meas_type, meas_data, value_in_pu) ==
    /\ heap' = UpdateLoop(heap, sets[s], 1, element_uuid, meas_type, meas_data, value_in_pu)
    /\ ret' = [op |-> "update_measurement", set |-> s, element_uuid |-> element_uuid,
               meas_type |-> meas_type, meas_data |-> meas_data, value_in_pu |-> value_in_pu]
    /\ UNCHANGED sets

(***************************************************************************)
(* meas_creation                                                           *)
(***************************************************************************)
PhaseTypes == {"Ipmu_phase", "Vpmu_phase", "Ipmu_inj_phase"}

\* np.random.normal(loc, scale, n): loc + scale * z[k] for the standard
\* normal variates z the seeded generator yields
normal(loc, scale, z) == [k \in 1..Len(z) |-> Add(loc, Mul(scale, z[k]))]

\* np.random.uniform(low, high, n): low + (high - low) * u[k] for the
\* variates u of the unit interval the seeded generator yields
uniform(low, high, u) ==
    [k \in 1..Len(u) |-> Add(low, Mul(Add(high, Neg(low)), u[k]))]

\* The samples err_pu that meas_creation draws for the variates z
err_pu(dist, z) ==
    IF dist = "normal" THEN normal(Zero, Zero, z)
    ELSE uniform(Num(-1), One, z)

\* abs(value * unc) / 300
RelDev(value, unc) == Div(AbsQ(Mul(value, unc)), Num(300))

\* The body of the loops over the measurements that write meas_value and
\* std_dev, for the sample err of this measurement
NoiseOne(m, err, dist, type) ==
    IF type = "simulation" /\ dist = "normal"
    THEN IF m.meas_type \notin PhaseTypes
         THEN LET zdev_ideal == RelDev(m.meas_value_ideal, m.unc)
                  v == Add(m.meas_value_ideal, Mul(zdev_ideal, err))
              IN  [m EXCEPT !.meas_value = v, !.std_dev = RelDev(v, m.unc)]
         ELSE LET zdev_ideal == Div(m.unc, Num(3))
              IN  [m EXCEPT !.meas_value = Add(m.meas_value_ideal, Mul(zdev_ideal, err)),
                            !.std_dev = zdev_ideal]
    ELSE IF type = "simulation" /\ dist = "uniform"
    THEN IF m.meas_type \notin PhaseTypes
         THEN LET zdev_ideal == RelDev(m.meas_value_ideal, m.unc)
                  v == Add(m.meas_value_ideal, Mul(Mul(Num(3), zdev_ideal), err))
              IN  [m EXCEPT !.meas_value = v, !.std_dev = RelDev(v, m.unc)]
         ELSE LET zdev_ideal == Div(m.unc, Num(3))
              IN  [m EXCEPT !.meas_value = Add(m.meas_value_ideal,
                                               Mul(Mul(Num(3), zdev_ideal), err)),
                            !.std_dev = zdev_ideal]
    ELSE IF type = "field"
    THEN IF m.meas_type \notin PhaseTypes
         THEN [m EXCEPT !.meas_value = m.meas_value_ideal,
                        !.std_dev = RelDev(m.meas_value_ideal, m.unc)]
         ELSE [m EXCEPT !.meas_value = m.meas_value_ideal,
                        !.std_dev = Div(m.unc, Num(3))]
    ELSE m

RECURSIVE NoiseLoop(_, _, _, _, _, _)
NoiseLoop(h, ids, k, err, dist, type) ==
    IF k > Len(ids) THEN h
    ELSE NoiseLoop([h EXCEPT ![ids[k]] = NoiseOne(h[ids[k]], err[k], dist, type)],
                   ids, k + 1, err, dist, type)

\* "converting to actuals": the factor for the kind of the measurement
type_volt == {"Vpmu_mag", "V_mag"}

\* Mutant: the current kinds without the injection magnitude
type_curr_NoInjection == {"Ipmu_mag", "I_mag"}

type_curr == {"Ipmu_mag", "I_mag", "Ipmu_inj_mag"}

type_power == {"S1_imag", "S1_real", "S2_imag", "S2_real", "Sinj_imag", "Sinj_real"}

type_phase == {"Vpmu_phase", "Ipmu_phase", "Ipmu_inj_phase"}

ActualsOne(m) ==
    IF m.meas_type \in type_volt
    THEN [m EXCEPT !.meas_value_act = Mul(m.meas_value, DivSqrt3(baseVoltage(m.element))),
                   !.std_dev_act = Mul(m.std_dev, DivSqrt3(baseVoltage(m.element)))]
    ELSE IF m.meas_type \in type_curr
    THEN [m EXCEPT !.meas_value_act = Mul(m.meas_value, base_current(m.element)),
                   !.std_dev_act = Mul(m.std_dev, base_current(m.element))]
    ELSE IF m.meas_type \in type_power
    THEN [m EXCEPT !.meas_value_act = Mul(m.meas_value,
                                          Div(base_apparent_power(m.element), Num(3))),
                   !.std_dev_act = Mul(m.std_dev,
                                       Div(base_apparent_power(m.element), Num(3)))]
    ELSE IF m.meas_type \in type_phase
    THEN [m EXCEPT !.meas_value_act = m.meas_value, !.std_dev_act = m.std_dev]
    ELSE m

RECURSIVE ActualsLoop(_, _, _)
ActualsLoop(h, ids, k) ==
    IF k > Len(ids) THEN h
    ELSE ActualsLoop([h EXCEPT ![ids[k]] = ActualsOne(h[ids[k]])], ids, k + 1)

\* meas_creation(dist, seed, type); z are the variates the generator seeded
\* with seed yields, one per measurement (none are drawn for type "field")
meas_creation(s, dist, z, type) ==
    /\ heap' = ActualsLoop(
                  IF type = "simulation"
                  THEN NoiseLoop(heap, sets[s], 1, err_pu(dist, z), dist, type)
                  ELSE NoiseLoop(heap, sets[s], 1, z, dist, type),
                  sets[s], 1)
    /\ ret' = [op |-> "meas_creation", set |-> s, dist |-> dist, type |-> type, z |-> z]
    /\ UNCHANGED sets

(***************************************************************************)
(* getWeightsMatrix, getCovarianceMatrix and their Actuals counterparts    *)
(***************************************************************************)
\* 10 ** (-6)
StdDevFloor == Q(1, 1, -6)

\* "if std_dev < 10 ** (-6): std_dev = 10 ** (-6)", on the field the call reads
FloorStd(m, actuals) ==
    IF actuals
    THEN IF Less(m.std_dev_act, StdDevFloor) THEN [m EXCEPT !.std_dev_act = StdDevFloor] ELSE m
    ELSE IF Less(m.std_dev, StdDevFloor) THEN [m EXCEPT !.std_dev = StdDevFloor] ELSE m

StdOf(m, actuals) == IF actuals THEN m.std_dev_act ELSE m.std_dev

\* Mutant: the covariance raised to the power of the weight
CovEntry_AsWeight(std) == InvSquare(std)

\* (std) ** (-2) and (std) ** (2)
WeightEntry(std) == InvSquare(std)

CovEntry(std) == Square(std)

\* The loop of the four functions from list position k on: the heap it leaves
\* and the array it fills
RECURSIVE StdLoop(_, _, _, _, _, _)
StdLoop(h, ids, k, out, actuals, cov) ==
    IF k > Len(ids) THEN [heap |-> h, out |-> out]
    ELSE LET m == FloorStd(h[ids[k]], actuals)
         IN  StdLoop([h EXCEPT ![ids[k]] = m], ids, k + 1,
                     Append(out, IF cov THEN CovEntry(StdOf(m, actuals))
                                 ELSE WeightEntry(StdOf(m, actuals))),
                     actuals, cov)

StdCall(s, name, actuals, cov) ==
    LET r == StdLoop(heap, sets[s], 1, <<>>, actuals, cov) IN
    /\ heap' = r.heap
    /\ ret' = [op |-> name, set |-> s, result |-> r.out]
    /\ UNCHANGED sets

getWeightsMatrix(s) == StdCall(s, "getWeightsMatrix", FALSE, FALSE)

getWeightsMatrixActuals(s) == StdCall(s, "getWeightsMatrixActuals", TRUE, FALSE)

getCovarianceMatrix(s) == StdCall(s, "getCovarianceMatrix", FALSE, TRUE)

getCovarianceMatrixActuals(s) == StdCall(s, "getCovarianceMatrixActuals", TRUE, TRUE)

(***************************************************************************)
(* read_measurements_from_file                                             *)
(***************************************************************************)
\* The power flow results: per element the complex quantities in per unit,
\* a phasor by its modulus and argument, a power by its real and imaginary
\* part
ResultsTable ==
    [e \in Elements |->
       [voltage_pu |-> IF e = "N1" THEN [abs |-> Frac(1, 1), angle |-> Frac(-1, 3)]
                       ELSE [abs |-> Frac(2, 1), angle |-> Frac(1, 7)],
        current_pu |-> IF e \in {"N1", "B1"} THEN [abs |-> Frac(3, 1), angle |-> Frac(2, 3)]
                       ELSE [abs |-> Frac(4, 1), angle |-> Frac(-3, 7)],
        power_pu   |-> IF e \in {"N1", "B1"} THEN [real |-> Frac(5, 1), imag |-> Frac(-1, 1)]
                       ELSE [real |-> Frac(-7, 1), imag |-> Frac(2, 1)],
        power2_pu  |-> IF e = "B1" THEN [real |-> Frac(-5, 1), imag |-> Frac(1, 1)]
                       ELSE [real |-> Frac(7, 1), imag |-> Frac(-2, 1)]]]

voltage_pu(e) == ResultsTable[e].voltage_pu

current_pu(e) == ResultsTable[e].current_pu

power_pu(e) == ResultsTable[e].power_pu

power2_pu(e) == ResultsTable[e].power2_pu

\* np.abs and np.angle of a phasor
NpAbs(z) == z.abs

NpAngle(z) == z.angle

\* meas_value_ideal of the measurement of kind t that the groups create on
\* element e
IdealOf(t, e) ==
    CASE t \in {"V_mag", "Vpmu_mag"} -> NpAbs(voltage_pu(e))
      [] t = "Vpmu_phase" -> NpAngle(voltage_pu(e))
      [] t \in {"I_mag", "Ipmu_mag", "Ipmu_inj_mag"} -> NpAbs(current_pu(e))
      [] t \in {"Ipmu_phase", "Ipmu_inj_phase"} -> NpAngle(current_pu(e))
      [] t \in {"Sinj_real", "S1_real"} -> power_pu(e).real
      [] t \in {"Sinj_imag", "S1_imag"} -> power_pu(e).imag
      [] t = "S2_real" -> power2_pu(e).real
      [] t = "S2_imag" -> power2_pu(e).imag

\* The ElemType the groups pass for kind t
ElemTypeOf(t) == IF t \in KindsOn("Node") THEN "Node" ELSE "Branch"

\* One "for uuid in value['uuid']" loop that creates one measurement of kind
\* t per uuid
RECURSIVE CreateEach(_, _, _, _)
CreateEach(uuids, k, t, unc) ==
    IF k > Len(uuids) THEN <<>>
    ELSE <<Measurement(uuids[k], ElemTypeOf(t), t, IdealOf(t, uuids[k]), unc)>>
         \o CreateEach(uuids, k + 1, t, unc)

\* One loop that creates a magnitude and a phase measurement per uuid
RECURSIVE CreatePairs(_, _, _, _, _, _)
CreatePairs(uuids, k, tmag, tphase, unc_mag, unc_phase) ==
    IF k > Len(uuids) THEN <<>>
    ELSE <<Measurement(uuids[k], ElemTypeOf(tmag), tmag, IdealOf(tmag, uuids[k]), unc_mag),
           Measurement(uuids[k], ElemTypeOf(tphase), tphase, IdealOf(tphase, uuids[k]),
                       unc_phase)>>
         \o CreatePairs(uuids, k + 1, tmag, tphase, unc_mag, unc_phase)

\* Mutant: the second loop of the "Vpmu" group runs over the uuids backwards
VpmuGroup_PhasesReversed(value) ==
    CreateEach(value.uuid, 1, "Vpmu_mag", value.unc_mag)
    \o CreateEach([k \in 1..Len(value.uuid) |-> value.uuid[Len(value.uuid) + 1 - k]],
                  1, "Vpmu_phase", value.unc_phase)

\* The branch for key "Vpmu": all magnitudes, then all phases
VpmuGroup(value) ==
    CreateEach(value.uuid, 1, "Vpmu_mag", value.unc_mag)
    \o CreateEach(value.uuid, 1, "Vpmu_phase", value.unc_phase)

\* The measurements the body of the loop over the groups creates for one
\* group, in order of creation
GroupMeasurements(key, value) ==
    CASE key = "Vmag" -> CreateEach(value.uuid, 1, "V_mag", value.unc)
      [] key = "Imag" -> CreateEach(value.uuid, 1, "I_mag", value.unc)
      [] key = "Pinj" -> CreateEach(value.uuid, 1, "Sinj_real", value.unc)
      [] key = "Qinj" -> CreateEach(value.uuid, 1, "Sinj_imag", value.unc)
      [] key = "P1" -> CreateEach(value.uuid, 1, "S1_real", value.unc)
      [] key = "Q1" -> CreateEach(value.uuid, 1, "S1_imag", value.unc)
      [] key = "P2" -> CreateEach(value.uuid, 1, "S2_real", value.unc)
      [] key = "Q2" -> CreateEach(value.uuid, 1, "S2_imag", value.unc)
      [] key = "Vpmu" -> VpmuGroup(value)
      [] key = "Ipmu" -> CreatePairs(value.uuid, 1, "Ipmu_mag", "Ipmu_phase",
                                     value.unc_mag, value.unc_phase)
      [] key = "Ipmu_inj" -> CreatePairs(value.uuid, 1, "Ipmu_inj_mag", "Ipmu_inj_phase",
                                         value.unc_mag, value.unc_phase)
      [] OTHER -> <<>>

\* The loop "for key, value in data['Measurement'].items()", from group g on
RECURSIVE FileMeasurements(_, _)
FileMeasurements(data, g) ==
    IF g > Len(data) THEN <<>>
    ELSE GroupMeasurements(data[g].key, data[g].value) \o FileMeasurements(data, g + 1)

\* The create_measurement calls of one read: the measurements new become
\* objects and are appended to set s in order of creation
CreateAll(s, data, new) ==
    /\ heap' = heap \o new
    /\ sets' = [sets EXCEPT ![s] = @ \o [k \in 1..Len(new) |-> Len(heap) + k]]
    /\ ret' = [op |-> "read_measurements_from_file", set |-> s, data |-> data]

\* read_measurements_from_file for a file whose groups are data, every uuid
\* of which the power flow results know
read_measurements_from_file(s, data) == CreateAll(s, data, FileMeasurements(data, 1))

(***************************************************************************)
(* getMeasurementsOfType, getIndexOfMeasurements, getSortedMeasurementSet, *)
(* mergeMeasurementSets                                                    *)
(***************************************************************************)
\* Mutant: the measurements of a kind are collected in front of the ones
\* found before
RECURSIVE getMeasurementsOfType_Prepend(_, _, _, _)
getMeasurementsOfType_Prepend(h, ids, type, k) ==
    IF k > Len(ids) THEN <<>>
    ELSE getMeasurementsOfType_Prepend(h, ids, type, k + 1)
         \o (IF h[ids[k]].meas_type = type THEN <<ids[k]>> ELSE <<>>)

\* The measurements (object identities) of kind type in the list ids, from
\* list position k on
RECURSIVE getMeasurementsOfType(_, _, _, _)
getMeasurementsOfType(h, ids, type, k) ==
    IF k > Len(ids) THEN <<>>
    ELSE (IF h[ids[k]].meas_type = type THEN <<ids[k]>> ELSE <<>>)
         \o getMeasurementsOfType(h, ids, type, k + 1)

\* The list positions of the measurements of kind type, from position k on
RECURSIVE getIndexOfMeasurements(_, _, _, _)
getIndexOfMeasurements(h, ids, type, k) ==
    IF k > Len(ids) THEN <<>>
    ELSE (IF h[ids[k]].meas_type = type THEN <<k>> ELSE <<>>)
         \o getIndexOfMeasurements(h, ids, type, k + 1)

\* Mutant: the kinds in the order of their enumeration values
SortOrder_ByEnumValue ==
    <<"V_mag", "Sinj_real", "Sinj_imag", "S1_real", "S1_imag", "I_mag",
      "Vpmu_mag", "Vpmu_phase", "Ipmu_mag", "Ipmu_phase", "S2_real", "S2_imag",
      "Ipmu_inj_mag", "Ipmu_inj_phase">>

\* The list of kinds getSortedMeasurementSet loops over
SortOrder ==
    <<"V_mag", "Sinj_real", "Sinj_imag", "S1_real", "S1_imag", "S2_real", "S2_imag",
      "I_mag", "Vpmu_mag", "Vpmu_phase", "Ipmu_mag", "Ipmu_phase",
      "Ipmu_inj_mag", "Ipmu_inj_phase">>

\* The loop of getSortedMeasurementSet from the j-th kind on
RECURSIVE SortedList(_, _, _)
SortedList(h, ids, j) ==
    IF j > Len(SortOrder) THEN <<>>
    ELSE getMeasurementsOfType(h, ids, SortOrder[j], 1) \o SortedList(h, ids, j + 1)

\* Mutant: the sorted set is filled with copies of the measurements
getSortedMeasurementSet_Copies(s) ==
    /\ Len(sets) < MaxSets
    /\ heap' = heap \o [k \in 1..Len(sets[s]) |-> heap[SortedList(heap, sets[s], 1)[k]]]
    /\ sets' = Append(sets, [k \in 1..Len(sets[s]) |-> Len(heap) + k])
    /\ ret' = [op |-> "getSortedMeasurementSet", set |-> s, result |-> Len(sets) + 1]

getSortedMeasurementSet(s) ==
    /\ Len(sets) < MaxSets
    /\ sets' = Append(sets, SortedList(heap, sets[s], 1))
    /\ ret' = [op |-> "getSortedMeasurementSet", set |-> s, result |-> Len(sets) + 1]
    /\ UNCHANGED heap

\* Mutant: the second list is appended to the list of the first set in
\* place before the result is built
mergeMeasurementSets_InPlace(meas_set_1, meas_set_2) ==
    /\ Len(sets) < MaxSets
    /\ sets' = Append([sets EXCEPT ![meas_set_1] = @ \o sets[meas_set_2]],
                      sets[meas_set_1] \o sets[meas_set_2])
    /\ ret' = [op |-> "mergeMeasurementSets", set |-> meas_set_1, set2 |-> meas_set_2,
               result |-> Len(sets) + 1]
    /\ UNCHANGED heap

mergeMeasurementSets(meas_set_1, meas_set_2) ==
    /\ Len(sets) < MaxSets
    /\ sets' = Append(sets, sets[meas_set_1] \o sets[meas_set_2])
    /\ ret' = [op |-> "mergeMeasurementSets", set |-> meas_set_1, set2 |-> meas_set_2,
               result |-> Len(sets) + 1]
    /\ UNCHANGED heap

(***************************************************************************)
(* getMeasValues, getMeasValuesActuals                                     *)
(***************************************************************************)
ValueOf(m, actuals) == IF actuals THEN m.meas_value_act ELSE m.meas_value

\* Mutant: the phase slot receives the cosine product as well
PhaseSlot_Cos(amp, theta) == TimesCos(amp, theta)

\* What the loop over the zipped index arrays writes in the two slots
MagSlot(amp, theta) == TimesCos(amp, theta)

PhaseSlot(amp, theta) == TimesSin(amp, theta)

\* The loop "for mag_index, phase_index in zip(mag_idx, phase_idx)" from
\* the j-th pair on
RECURSIVE ZipLoop(_, _, _, _, _, _, _)
ZipLoop(meas_real, h, ids, mag_idx, phase_idx, j, actuals) ==
    IF j > Len(mag_idx) \/ j > Len(phase_idx) THEN meas_real
    ELSE LET amp == ValueOf(h[ids[mag_idx[j]]], actuals)
             theta == ValueOf(h[ids[phase_idx[j]]], actuals)
         IN  ZipLoop([meas_real EXCEPT ![mag_idx[j]] = MagSlot(amp, theta),
                                       ![phase_idx[j]] = PhaseSlot(amp, theta)],
                     h, ids, mag_idx, phase_idx, j + 1, actuals)

\* One "Replace ... by real and imaginary part" block
ReplaceFamily(meas_real, h, ids, tmag, tphase, actuals) ==
    ZipLoop(meas_real, h, ids, getIndexOfMeasurements(h, ids, tmag, 1),
            getIndexOfMeasurements(h, ids, tphase, 1), 1, actuals)

\* The array getMeasValues (getMeasValuesActuals) returns for the list ids
MeasValues(h, ids, actuals) ==
    ReplaceFamily(
        ReplaceFamily(
            ReplaceFamily([k \in 1..Len(ids) |-> ValueOf(h[ids[k]], actuals)],
                          h, ids, "Vpmu_mag", "Vpmu_phase", actuals),
            h, ids, "Ipmu_mag", "Ipmu_phase", actuals),
        h, ids, "Ipmu_inj_mag", "Ipmu_inj_phase", actuals)

getMeasValues(s) ==
    /\ ret' = [op |-> "getMeasValues", set |-> s, result |-> MeasValues(heap, sets[s], FALSE)]
    /\ UNCHANGED <<heap, sets>>

getMeasValuesActuals(s) ==
    /\ ret' = [op |-> "getMeasValuesActuals", set |-> s,
               result |-> MeasValues(heap, sets[s], TRUE)]
    /\ UNCHANGED <<heap, sets>>

(***************************************************************************)
(* SpecUpdate: one set, populated by create_measurement with the magnitude *)
(* kinds, a power kind and a phase kind on a node and a branch, and        *)
(* updated live with incoming kinds of each of the four branches and two   *)
(* that no branch handles.                                                 *)
(***************************************************************************)
UpdElements == {"N1", "B1"}

\* The raw values a live interface delivers
MeasData == {Num(6)}

\* element and kind of the measurements created
UpdKinds ==
    {<<"N1", "V_mag">>, <<"N1", "Vpmu_mag">>, <<"B1", "I_mag">>, <<"B1", "Ipmu_mag">>,
     <<"N1", "Ipmu_inj_mag">>, <<"B1", "S1_real">>, <<"N1", "Vpmu_phase">>}

\* kinds of the live updates
UpdIncoming == {"Vpmu_mag", "Ipmu_mag", "S1_real", "Vpmu_phase", "V_mag", "S1_imag"}

UpdCreate ==
    /\ Len(heap) < MaxUpdMeas
    /\ \E c \in UpdKinds : create_measurement(1, c[1], KindOf(c[1]), c[2], One, One)

UpdUpdate ==
    \E e \in UpdElements, t \in UpdIncoming, d \in MeasData, pu \in BOOLEAN :
       update_measurement(1, e, t, d, pu)

NextUpdate == UpdCreate \/ UpdUpdate

SpecUpdate == Init /\ [][NextUpdate]_vars

(***************************************************************************)
(* SpecPower: one set with measurements of the six power kinds, updated    *)
(* live with the six power kinds.                                          *)
(***************************************************************************)
PowKinds ==
    {<<"N1", "Sinj_real">>, <<"N1", "Sinj_imag">>, <<"B1", "S1_real">>,
     <<"B1", "S1_imag">>, <<"B1", "S2_real">>, <<"B1", "S2_imag">>}

PowIncoming == {"Sinj_real", "Sinj_imag", "S1_real", "S1_imag", "S2_real", "S2_imag"}

PowCreate ==
    /\ Len(heap) < MaxUpdMeas
    /\ \E c \in PowKinds : create_measurement(1, c[1], KindOf(c[1]), c[2], One, One)

PowUpdate ==
    \E e \in UpdElements, t \in PowIncoming, d \in MeasData, pu \in BOOLEAN :
       update_measurement(1, e, t, d, pu)

NextPower == PowCreate \/ PowUpdate

SpecPower == Init /\ [][NextPower]_vars

\* What a converting update is to leave in a measurement: per unit and actual
\* value from the raw value d, in the direction value_in_pu gives
Converted(m, d, value_in_pu, base) ==
    IF value_in_pu
    THEN m.meas_value = d /\ m.meas_value_act = Mul(d, base)
    ELSE m.meas_value = Div(d, base) /\ m.meas_value_act = d

PowerKinds == {"Sinj_real", "Sinj_imag", "S1_real", "S1_imag", "S2_real", "S2_imag"}

\* C3 (as stated): an update with a power kind for an element that has a
\* measurement of exactly that kind writes that measurement's meas_value and
\* meas_value_act from the raw value, scaled by base_apparent_power/3 in the
\* direction of value_in_pu, and changes no measurement of a different kind.
C3_PowerUpdateWritesExactKind ==
    [][(ret'.op = "update_measurement" /\ ret'.meas_type \in PowerKinds)
       => \A k \in 1..Len(sets[ret'.set]) :
             LET i == sets[ret'.set][k] IN
             /\ (heap[i].element = ret'.element_uuid /\ heap[i].meas_type = ret'.meas_type)
                => Converted(heap'[i], ret'.meas_data, ret'.value_in_pu,
                             Div(base_apparent_power(heap[i].element), Num(3)))
             /\ heap[i].meas_type # ret'.meas_type => heap'[i] = heap[i]]_vars

\* C8: an update with incoming kind Vpmu_mag writes every Vpmu_mag and V_mag
\* measurement of the named element, and one with incoming kind Ipmu_mag
\* every Ipmu_mag, I_mag and Ipmu_inj_mag measurement of the named element:
\* meas_value = raw/base and meas_value_act = raw when value_in_pu is false,
\* meas_value = raw and meas_value_act = raw*base when it is true, with
\* base = baseVoltage/sqrt(3) for voltage and base_current for current.
C8_MagnitudeUpdateWritesClass ==
    (ret.op = "update_measurement" /\ ret.meas_type \in {"Vpmu_mag", "Ipmu_mag"})
    => \A k \in 1..Len(sets[ret.set]) :
          LET m == heap[sets[ret.set][k]] IN
          /\ (ret.meas_type = "Vpmu_mag" /\ m.element = ret.element_uuid
              /\ m.meas_type \in {"Vpmu_mag", "V_mag"})
             => Converted(m, ret.meas_data, ret.value_in_pu,
                          DivSqrt3(baseVoltage(m.element)))
          /\ (ret.meas_type = "Ipmu_mag" /\ m.element = ret.element_uuid
              /\ m.meas_type \in {"Ipmu_mag", "I_mag", "Ipmu_inj_mag"})
             => Converted(m, ret.meas_data, ret.value_in_pu, base_current(m.element))

\* C8 witness: a Vpmu_mag update in actual units has just written both a V_mag
\* and a Vpmu_mag measurement of the named element
C8_Witness ==
    /\ ret.op = "update_measurement" /\ ret.meas_type = "Vpmu_mag" /\ ~ret.value_in_pu
    /\ \E j, k \in 1..Len(sets[ret.set]) :
          /\ heap[sets[ret.set][j]].element = ret.element_uuid
          /\ heap[sets[ret.set][k]].element = ret.element_uuid
          /\ heap[sets[ret.set][j]].meas_type = "V_mag"
          /\ heap[sets[ret.set][k]].meas_type = "Vpmu_mag"
          /\ heap[sets[ret.set][j]].meas_value # Zero

\* The four update rules: does the incoming kind t for element e address m
RuleMatches(m, e, t) ==
    /\ m.element = e
    /\ \/ t = "Vpmu_mag" /\ m.meas_type \in {"Vpmu_mag", "V_mag"}
       \/ t = "Ipmu_mag" /\ m.meas_type \in {"Ipmu_mag", "I_mag", "Ipmu_inj_mag"}
       \/ t \in PowerKinds /\ m.meas_type = t
       \/ t \in {"Vpmu_phase", "Ipmu_phase", "Ipmu_inj_phase"} /\ m.meas_type = t

NoRuleMatches(h, ids, e, t) == \A k \in 1..Len(ids) : ~RuleMatches(h[ids[k]], e, t)

\* C9: an update whose element and kind match no stored measurement under
\* the four update rules leaves every field of every measurement, and the
\* length and order of the set, unchanged.
C9_UnmatchedUpdateIsNoOp ==
    [][(ret'.op = "update_measurement"
        /\ NoRuleMatches(heap, sets[ret'.set], ret'.element_uuid, ret'.meas_type))
       => heap' = heap /\ sets' = sets]_vars

\* C9 witness: an update has just run on a set that holds measurements, none
\* of which it addresses, one of them on the named element
C9_Witness ==
    /\ ret.op = "update_measurement"
    /\ NoRuleMatches(heap, sets[ret.set], ret.element_uuid, ret.meas_type)
    /\ \E k \in 1..Len(sets[ret.set]) : heap[sets[ret.set][k]].element = ret.element_uuid
    /\ \E k \in 1..Len(sets[ret.set]) : heap[sets[ret.set][k]].element # ret.element_uuid

(***************************************************************************)
(* SpecNoise: one set with a magnitude and a phase measurement kind, noise  *)
(* injection in every mode, and the weight and covariance reads.           *)
(***************************************************************************)
\* element and kind of the measurements created
NoiseKinds ==
    {<<"N1", "V_mag">>, <<"B1", "Ipmu_phase">>}

\* ideal values and uncertainties (in percent) of the measurements created
NoiseIdeals == {Num(-2)}

NoiseUncs == {Zero, Num(3)}

\* variates of the generator: standard normal ones, and ones of the unit
\* interval
NormalVariates == {Zero, Num(2)}

UnitVariates == {Zero, Q(3, 4, 0)}

NoiseCreate ==
    /\ Len(heap) < MaxNoiseMeas
    /\ \E c \in NoiseKinds, v \in NoiseIdeals, u \in NoiseUncs :
          create_measurement(1, c[1], KindOf(c[1]), c[2], v, u)

NoiseSimulation ==
    \/ \E z \in [1..Len(sets[1]) -> NormalVariates] : meas_creation(1, "normal", z, "simulation")
    \/ \E z \in [1..Len(sets[1]) -> UnitVariates] : meas_creation(1, "uniform", z, "simulation")

NoiseField == meas_creation(1, "normal", <<>>, "field")

NextNoise ==
    \/ NoiseCreate
    \/ NoiseSimulation
    \/ NoiseField
    \/ getWeightsMatrix(1)
    \/ getWeightsMatrixActuals(1)
    \/ getCovarianceMatrix(1)
    \/ getCovarianceMatrixActuals(1)

SpecNoise == Init /\ [][NextNoise]_vars

StdReads ==
    {"getWeightsMatrix", "getWeightsMatrixActuals",
     "getCovarianceMatrix", "getCovarianceMatrixActuals"}

\* C2 (as stated): the four weight and covariance reads apply the 1e-6 floor
\* only to the numbers they return; after the call every measurement's stored
\* std_dev and std_dev_act are what they were before it.
C2_ReadsLeaveStdDevStored ==
    [][ret'.op \in StdReads
       => \A i \in 1..Len(heap) : /\ heap'[i].std_dev = heap[i].std_dev
                                  /\ heap'[i].std_dev_act = heap[i].std_dev_act]_vars

\* What simulation/normal is to leave in measurement m for its own standard
\* normal draw
NormalNoise(m, sample) ==
    IF m.meas_type \notin PhaseTypes
    THEN /\ m.meas_value = Add(m.meas_value_ideal,
                               Mul(Div(AbsQ(Mul(m.meas_value_ideal, m.unc)), Num(300)), sample))
         /\ m.std_dev = Div(AbsQ(Mul(m.meas_value, m.unc)), Num(300))
    ELSE /\ m.meas_value = Add(m.meas_value_ideal, Mul(Div(m.unc, Num(3)), sample))
         /\ m.std_dev = Div(m.unc, Num(3))

\* C4 (as stated): after meas_creation with type 'simulation' and dist
\* 'normal' every measurement holds meas_value = ideal + spread * sample, with
\* sample its own draw from the standard normal distribution and spread
\* |ideal*unc|/300 (unc/3 for a phase); std_dev is |meas_value*unc|/300 (unc/3).
C4_NormalNoiseUsesStandardNormalDraw ==
    (ret.op = "meas_creation" /\ ret.type = "simulation" /\ ret.dist = "normal")
    => \A k \in 1..Len(sets[ret.set]) : NormalNoise(heap[sets[ret.set][k]], ret.z[k])

MaxQ(a, b) == IF Less(a, b) THEN b ELSE a

\* What getCovarianceMatrix[Actuals] and getWeightsMatrix[Actuals] return at
\* position k of set s in heap h
CovarianceNow(h, s, k, actuals) ==
    StdLoop(h, sets[s], 1, <<>>, actuals, TRUE).out[k]

WeightNow(h, s, k, actuals) ==
    StdLoop(h, sets[s], 1, <<>>, actuals, FALSE).out[k]

SortKinds ==
    {<<"N1", t>> : t \in KindsOn("Node")} \cup {<<"B1", t>> : t \in KindsOn("Branch")}

SortCreate ==
    /\ Len(heap) < MaxSortMeas
    /\ \E c \in SortKinds :
          create_measurement(1, c[1], KindOf(c[1]), c[2], IdealOf(c[2], c[1]), One)

SortSorted == \E s \in 1..Len(sets) : getSortedMeasurementSet(s)

NextSort == SortCreate \/ SortSorted

SpecSort == Init /\ [][NextSort]_vars

\* The order of kinds the estimator requires
CanonicalOrder ==
    <<"V_mag", "Sinj_real", "Sinj_imag", "S1_real", "S1_imag", "S2_real", "S2_imag",
      "I_mag", "Vpmu_mag", "Vpmu_phase", "Ipmu_mag", "Ipmu_phase",
      "Ipmu_inj_mag", "Ipmu_inj_phase">>

Rank(t) == CHOOSE k \in 1..Len(CanonicalOrder) : CanonicalOrder[k] = t

Pos(ids, id) == CHOOSE k \in 1..Len(ids) : ids[k] = id

Count(ids, id) == Cardinality({k \in 1..Len(ids) : ids[k] = id})

\* C5: in the set getSortedMeasurementSet returns no measurement of a later
\* kind of the canonical order precedes one of an earlier kind, and
\* measurements of the same kind keep the relative order of the source set.
C5_SortedInCanonicalOrder ==
    ret.op = "getSortedMeasurementSet"
    => LET src == sets[ret.set]
           res == sets[ret.result]
       IN  \A i, j \in 1..Len(res) :
              i < j => /\ Rank(heap[res[i]].meas_type) <= Rank(heap[res[j]].meas_type)
                       /\ heap[res[i]].meas_type = heap[res[j]].meas_type
                          => Pos(src, res[i]) < Pos(src, res[j])

\* C5 witness: a sorted copy was made of a set whose two measurements were
\* not in canonical order
C5_Witness ==
    /\ ret.op = "getSortedMeasurementSet"
    /\ Len(sets[ret.set]) = 2
    /\ Rank(heap[sets[ret.set][1]].meas_type) > Rank(heap[sets[ret.set][2]].meas_type)
    /\ Len(sets[ret.result]) = 2

\* C6: sorting the result of getSortedMeasurementSet again yields the same
\* measurements in the same order; the sorted set has exactly the
\* measurements of the source, each as often; the source keeps its order.
C6_SortIdempotentAndCountPreserving ==
    [][ret'.op = "getSortedMeasurementSet"
       => LET res == sets'[ret'.result] IN
          /\ SortedList(heap', res, 1) = res
          /\ Len(res) = Len(sets[ret'.set])
          /\ \A id \in 1..Len(heap) : Count(res, id) = Count(sets[ret'.set], id)
          /\ \A s \in 1..Len(sets) : sets'[s] = sets[s]
          /\ heap' = heap]_vars

\* C6 witness: set 2 is a reordered sorted copy of set 1 and set 3 has just
\* been made as the sorted copy of set 2
C6_Witness ==
    /\ ret.op = "getSortedMeasurementSet" /\ ret.set = 2 /\ ret.result = 3
    /\ Len(sets[1]) = 2 /\ Len(sets[2]) = 2
    /\ sets[2] # sets[1]
    /\ sets[2] = SortedList(heap, sets[1], 1)
    /\ sets[3] = sets[2]

(***************************************************************************)
(* SpecGroups: sets populated only by the phasor groups of                 *)
(* read_measurements_from_file, merged and sorted.                         *)
(***************************************************************************)
\* a phasor group of a file: its key, uncertainties and uuid list
PhasorGroup(key, uuid) ==
    [key |-> key, value |-> [unc_mag |-> One, unc_phase |-> Frac(2, 1), uuid |-> uuid]]

PhasorGroups ==
    {PhasorGroup("Vpmu", l) : l \in {<<"N1">>, <<"N1", "N2">>, <<"N2", "N1">>}}
    \cup {PhasorGroup("Ipmu", l) : l \in {<<"B1">>, <<"B1", "B2">>}}
    \cup {PhasorGroup("Ipmu_inj", l) : l \in {<<"N2">>, <<"N2", "N1">>}}

\* the number of magnitude and phase pairs the groups of a file create
RECURSIVE FilePairs(_, _)
FilePairs(data, g) ==
    IF g > Len(data) THEN 0 ELSE Len(data[g].value.uuid) + FilePairs(data, g + 1)

\* files of one group, and of two groups with different keys, that create no
\* more pairs than the bound
GroupFiles ==
    {d \in {<<g>> : g \in PhasorGroups}
           \cup {p \in PhasorGroups \X PhasorGroups : p[1].key # p[2].key} :
        FilePairs(d, 1) <= MaxGroupPairs}

\* a file is read while the measurements it creates fit the bound
GroupRead ==
    \E s \in 1..Len(sets) :
       \E data \in {d \in GroupFiles :
                       Len(heap) + 2 * FilePairs(d, 1) <= 2 * MaxGroupPairs} :
          read_measurements_from_file(s, data)

GroupSorted == \E s \in 1..Len(sets) : getSortedMeasurementSet(s)

GroupMerge == \E a, b \in 1..Len(sets) : mergeMeasurementSets(a, b)

NextGroups == GroupRead \/ GroupSorted \/ GroupMerge

SpecGroups == Init /\ [][NextGroups]_vars

\* The elements of the measurements of kind t in the list ids, in list order
KindElements(ids, t) ==
    LET of == SelectSeq(ids, LAMBDA id : heap[id].meas_type = t)
    IN  [k \in 1..Len(of) |-> heap[of[k]].element]

Families ==
    {<<"Vpmu_mag", "Vpmu_phase">>, <<"Ipmu_mag", "Ipmu_phase">>,
     <<"Ipmu_inj_mag", "Ipmu_inj_phase">>}

VecKinds ==
    {<<"N1", "Vpmu_mag">>, <<"N1", "Vpmu_phase">>, <<"N2", "Vpmu_mag">>,
     <<"N2", "Vpmu_phase">>, <<"B1", "Ipmu_mag">>, <<"B1", "Ipmu_phase">>,
     <<"N2", "Ipmu_inj_mag">>, <<"N2", "Ipmu_inj_phase">>, <<"N1", "V_mag">>}

VecCreate ==
    /\ Len(heap) < MaxVecMeas
    /\ \E c \in VecKinds :
          create_measurement(1, c[1], KindOf(c[1]), c[2], IdealOf(c[2], c[1]), One)

VecField == meas_creation(1, "normal", <<>>, "field")

NextVector == VecCreate \/ VecField \/ getMeasValues(1) \/ getMeasValuesActuals(1)

SpecVector == Init /\ [][NextVector]_vars

VecReads == {"getMeasValues", "getMeasValuesActuals"}

\* mag * cos(phase) and mag * sin(phase) of the stored values of the
\* measurements at list positions j and k
RectOf(s, j, k, actuals) ==
    LET mag == ValueOf(heap[sets[s][j]], actuals)
        phase == ValueOf(heap[sets[s][k]], actuals)
    IN  <<TimesCos(mag, phase), TimesSin(mag, phase)>>

\* C1 (as stated): whatever the insertion order, whenever one element carries
\* both a magnitude and a phase measurement of one phasor family,
\* getMeasValues[Actuals] returns mag*cos(phase) at the position of the
\* magnitude and mag*sin(phase) at the position of the phase measurement.
C1_RectangularForEveryElementPair ==
    ret.op \in VecReads
    => \A f \in Families : \A j, k \in 1..Len(sets[ret.set]) :
          (/\ heap[sets[ret.set][j]].meas_type = f[1]
           /\ heap[sets[ret.set][k]].meas_type = f[2]
           /\ heap[sets[ret.set][j]].element = heap[sets[ret.set][k]].element)
          => /\ ret.result[j] = RectOf(ret.set, j, k, ret.op = "getMeasValuesActuals")[1]
             /\ ret.result[k] = RectOf(ret.set, j, k, ret.op = "getMeasValuesActuals")[2]

\* How many measurements of kind t the list ids holds up to position j
NthOfKind(ids, t, j) == Cardinality({i \in 1..j : heap[ids[i]].meas_type = t})

\* C1 (amended): whenever one element carries a magnitude and a phase
\* measurement of one phasor family that are the n-th magnitude and the n-th
\* phase measurement of that family in list order, for the same n,
\* getMeasValues[Actuals] returns mag*cos(phase) at the position of the
\* magnitude and mag*sin(phase) at the position of the phase measurement.
C1_RectangularForCoIndexedPair ==
    ret.op \in VecReads
    => \A f \in Families : \A j, k \in 1..Len(sets[ret.set]) :
          (/\ heap[sets[ret.set][j]].meas_type = f[1]
           /\ heap[sets[ret.set][k]].meas_type = f[2]
           /\ heap[sets[ret.set][j]].element = heap[sets[ret.set][k]].element
           /\ NthOfKind(sets[ret.set], f[1], j) = NthOfKind(sets[ret.set], f[2], k))
          => /\ ret.result[j] = RectOf(ret.set, j, k, ret.op = "getMeasValuesActuals")[1]
             /\ ret.result[k] = RectOf(ret.set, j, k, ret.op = "getMeasValuesActuals")[2]

\* C1 witness: getMeasValues has read a set of three measurements in which a
\* phase measurement precedes the magnitude measurement of the same element,
\* the two are the n-th of their kinds for the same n, both have nonzero
\* values, and the magnitude slot holds the product instead of the magnitude
C1_Witness ==
    /\ ret.op = "getMeasValues"
    /\ Len(sets[ret.set]) = 3
    /\ \E j, k \in 1..3 :
          /\ k < j
          /\ heap[sets[ret.set][j]].meas_type = "Vpmu_mag"
          /\ heap[sets[ret.set][k]].meas_type = "Vpmu_phase"
          /\ heap[sets[ret.set][j]].element = heap[sets[ret.set][k]].element
          /\ NthOfKind(sets[ret.set], "Vpmu_mag", j) = NthOfKind(sets[ret.set], "Vpmu_phase", k)
          /\ heap[sets[ret.set][j]].meas_value # Zero
          /\ heap[sets[ret.set][k]].meas_value # Zero
          /\ ret.result[j] # heap[sets[ret.set][j]].meas_value

(***************************************************************************)
(* SpecActuals: one set with measurements of every quantity kind, on a     *)
(* node and a branch of different bases, given values by every mode of     *)
(* meas_creation, with weight reads in between that floor std_dev and not  *)
(* std_dev_act.                                                            *)
(***************************************************************************)
ActKinds ==
    {<<"N1", t>> : t \in KindsOn("Node")} \cup {<<"B2", t>> : t \in KindsOn("Branch")}

ActUnitVariates == {Frac(1, 3)}

ActCreate ==
    /\ Len(heap) < MaxActMeas
    /\ \E c \in ActKinds :
          create_measurement(1, c[1], KindOf(c[1]), c[2], Frac(-2, 1), Frac(3, 1))

ActSimulation ==
    \/ meas_creation(1, "normal", [k \in 1..Len(sets[1]) |-> Frac(2, 1)], "simulation")
    \/ \E z \in [1..Len(sets[1]) -> ActUnitVariates] :
          meas_creation(1, "uniform", z, "simulation")

ActField == meas_creation(1, "normal", <<>>, "field")

NextActuals ==
    \/ ActCreate
    \/ ActSimulation
    \/ ActField
    \/ getWeightsMatrix(1)

SpecActuals == Init /\ [][NextActuals]_vars

\* The factor k of the claim for a measurement of kind t on element e
ActualFactor(t, e) ==
    CASE t \in {"V_mag", "Vpmu_mag"} -> DivSqrt3(baseVoltage(e))
      [] t \in {"I_mag", "Ipmu_mag", "Ipmu_inj_mag"} -> base_current(e)
      [] t \in {"Sinj_real", "Sinj_imag", "S1_real", "S1_imag", "S2_real", "S2_imag"}
            -> Div(base_apparent_power(e), Num(3))
      [] t \in {"Vpmu_phase", "Ipmu_phase", "Ipmu_inj_phase"} -> One

\* C11: immediately after any meas_creation pass every measurement of the set
\* has meas_value_act = meas_value * k and std_dev_act = std_dev * k, for the
\* factor k of its kind.
C11_ActualsDerivedAfterPass ==
    ret.op = "meas_creation"
    => \A i \in 1..Len(sets[ret.set]) :
          LET m == heap[sets[ret.set][i]]
              k == ActualFactor(m.meas_type, m.element)
          IN  /\ m.meas_value_act = Mul(m.meas_value, k)
              /\ m.std_dev_act = Mul(m.std_dev, k)

\* C11 witness: a uniform simulation pass has just run over a set that holds a
\* current injection magnitude whose noisy value differs from the ideal one
\* and whose actual fields differ from the per-unit ones
C11_Witness ==
    /\ ret.op = "meas_creation" /\ ret.type = "simulation" /\ ret.dist = "uniform"
    /\ \E i \in 1..Len(sets[1]) :
          LET m == heap[sets[1][i]]
          IN  /\ m.meas_type = "Ipmu_inj_mag"
              /\ m.meas_value # m.meas_value_ideal
              /\ m.meas_value_act # m.meas_value
              /\ m.std_dev_act # m.std_dev
              /\ m.std_dev # Zero

(***************************************************************************)
(* SpecRound: one set with a measurement of each quantity family, updated  *)
(* in per unit and in actual units with a value and with the actual values *)
(* that the per-unit writes of that value produce.                         *)
(***************************************************************************)
RoundKinds ==
    {<<"N1", "Vpmu_mag">>, <<"B1", "I_mag">>, <<"B1", "S1_real">>, <<"N1", "Sinj_real">>,
     <<"N1", "Vpmu_phase">>}

RoundIncoming == {"Vpmu_mag", "Ipmu_mag", "S1_real", "Sinj_real", "Vpmu_phase"}

\* 6, and 6 times the voltage, current and power base of N1 and B1; 0, the
\* actual value of a measurement never written
RoundData == {Zero, Num(6), Num(12), Num(18), Num(30)}

RoundCreate ==
    /\ Len(heap) < MaxRoundMeas
    /\ \E c \in RoundKinds :
          create_measurement(1, c[1], KindOf(c[1]), c[2], One, One)

RoundUpdate ==
    \E e \in UpdElements, t \in RoundIncoming, d \in RoundData, pu \in BOOLEAN :
       update_measurement(1, e, t, d, pu)

NextRound == RoundCreate \/ RoundUpdate

SpecRound == Init /\ [][NextRound]_vars

\* The stored kinds of the family that an update of kind t addresses
FamilyOf(t) ==
    CASE t = "Vpmu_mag" -> {"Vpmu_mag", "V_mag"}
      [] t = "Ipmu_mag" -> {"Ipmu_mag", "I_mag", "Ipmu_inj_mag"}
      [] t \in PowerKinds \cup PhaseTypes -> {t}
      [] OTHER -> {}

\* C12: when a value v has been written in per unit and the actual value a
\* this left in a measurement of the family is then written in actual units
\* on the same element with the same kind, the measurement holds
\* meas_value = v again and meas_value_act = a still.
C12_PerUnitActualRoundTrip ==
    [][(/\ ret.op = "update_measurement" /\ ret.value_in_pu
        /\ ret'.op = "update_measurement" /\ ~ret'.value_in_pu
        /\ ret'.set = ret.set /\ ret'.element_uuid = ret.element_uuid
        /\ ret'.meas_type = ret.meas_type)
       => \A i \in 1..Len(sets[ret.set]) :
             LET id == sets[ret.set][i] IN
             (/\ heap[id].element = ret.element_uuid
              /\ heap[id].meas_type \in FamilyOf(ret.meas_type)
              /\ ret'.meas_data = heap[id].meas_value_act)
             => /\ heap'[id].meas_value = ret.meas_data
                /\ heap'[id].meas_value_act = heap[id].meas_value_act]_vars

(***************************************************************************)
(* SpecMerge: sets populated by create_measurement, their sorted copies    *)
(* (the sorted copy of an empty set is a new empty set) and the merges of  *)
(* any two of them, a set with itself included.                            *)
(***************************************************************************)
MergeKinds == {<<"N1", "Vpmu_mag">>, <<"B1", "I_mag">>}

MergeCreate ==
    /\ Len(heap) < MaxMergeMeas
    /\ \E s \in 1..Len(sets), c \in MergeKinds :
          create_measurement(s, c[1], KindOf(c[1]), c[2], One, One)

MergeSorted == \E s \in 1..Len(sets) : getSortedMeasurementSet(s)

MergeMerge == \E a, b \in 1..Len(sets) : mergeMeasurementSets(a, b)

NextMerge == MergeCreate \/ MergeSorted \/ MergeMerge

SpecMerge == Init /\ [][NextMerge]_vars

\* C13: mergeMeasurementSets(a, b) returns a set of len(a) + len(b)
\* measurements, first those of a in a's order and then those of b in b's
\* order, and leaves the lists of a and b (and of every other set) unchanged.
C13_MergeConcatenates ==
    [][ret'.op = "mergeMeasurementSets"
       => LET a == sets[ret'.set]
              b == sets[ret'.set2]
              res == sets'[ret'.result]
          IN  /\ ret'.result \notin 1..Len(sets)
              /\ Len(res) = Len(a) + Len(b)
              /\ \A i \in 1..Len(a) : res[i] = a[i]
              /\ \A j \in 1..Len(b) : res[Len(a) + j] = b[j]
              /\ \A s \in 1..Len(sets) : sets'[s] = sets[s]
              /\ heap' = heap]_vars

\* C13 witness: two different non-empty sets holding different measurements
\* have just been merged
C13_Witness ==
    /\ ret.op = "mergeMeasurementSets"
    /\ ret.set # ret.set2
    /\ sets[ret.set] # <<>> /\ sets[ret.set2] # <<>>
    /\ Range(sets[ret.set]) \cap Range(sets[ret.set2]) = {}
    /\ Len(sets[ret.result]) = Len(sets[ret.set]) + Len(sets[ret.set2])

(***************************************************************************)
(* SpecShare: a set of measurements, its sorted copies and merges, and     *)
(* live updates, field passes and weight reads made through any of them.   *)
(***************************************************************************)
ShareKinds == {<<"N1", "Vpmu_mag">>, <<"N1", "V_mag">>}

ShareCreate ==
    /\ Len(heap) < MaxShareMeas
    /\ \E c \in ShareKinds :
          create_measurement(1, c[1], KindOf(c[1]), c[2], Frac(-2, 1), Zero)

ShareSorted == \E s \in 1..Len(sets) : getSortedMeasurementSet(s)

\* two different sets are merged
ShareMerge == \E a, b \in 1..Len(sets) : a < b /\ mergeMeasurementSets(a, b)

ShareUpdate ==
    \E s \in 1..Len(sets) : update_measurement(s, "N1", "Vpmu_mag", Num(6), TRUE)

ShareField == \E s \in 1..Len(sets) : meas_creation(s, "normal", <<>>, "field")

ShareWeights == \E s \in 1..Len(sets) : getWeightsMatrix(s)

NextShare ==
    \/ ShareCreate
    \/ ShareSorted
    \/ ShareMerge
    \/ ShareUpdate
    \/ ShareField
    \/ ShareWeights

SpecShare == Init /\ [][NextShare]_vars

\* The values of a measurement that the claim compares
Shown(m) == <<m.meas_value, m.meas_value_act, m.std_dev, m.std_dev_act>>

\* The sets that the set made by the call recorded in r was made from
SourcesOf(r) == IF r.op = "mergeMeasurementSets" THEN {r.set, r.set2} ELSE {r.set}

\* C15: getSortedMeasurementSet and mergeMeasurementSets construct no
\* Measurement: the set they return holds exactly the objects of their source
\* sets, so every later write through one set is what the other set shows.
C15_DerivedSetsShareObjects ==
    [][/\ ret'.op \in {"getSortedMeasurementSet", "mergeMeasurementSets"}
          => /\ Len(heap') = Len(heap)
             /\ Range(sets'[ret'.result])
                = UNION {Range(sets[s]) : s \in SourcesOf(ret')}
       /\ ret'.op \in {"update_measurement", "meas_creation", "getWeightsMatrix"}
          => \A s, t \in 1..Len(sets) :
                \A i \in 1..Len(sets[s]), j \in 1..Len(sets[t]) :
                   (sets[s][i] = sets[t][j] /\ Shown(Meas(s)[i]) = Shown(Meas(t)[j]))
                   => Shown(heap'[sets'[s][i]]) = Shown(heap'[sets'[t][j]])]_vars

\* C15 witness: a live update through a derived set has just written a
\* measurement that a field pass had given its value, and the source set
\* holds that measurement
C15_Witness ==
    /\ ret.op = "update_measurement" /\ ret.set = 2
    /\ sets[1] # <<>> /\ sets[2] # <<>>
    /\ \E i \in 1..Len(sets[1]) :
          /\ sets[1][i] \in Range(sets[2])
          /\ heap[sets[1][i]].meas_value = Num(6)
          /\ heap[sets[1][i]].meas_value_ideal # Num(6)

(***************************************************************************)
(* SpecCreate: create_measurement called on a set and on its sorted copy   *)
(* with members of the two enumerations and with values that are not       *)
(* members (the name of a member as a string, the value of a member as an  *)
(* integer).                                                               *)
(***************************************************************************)
CreateElemTypes == {"Node", "str:Node"}

CreateMeasTypes == {"V_mag", "I_mag", "int:1"}

CreateAny ==
    \E s \in 1..Len(sets), et \in CreateElemTypes, mt \in CreateMeasTypes :
        /\ (et \in ElemType /\ mt \in MeasType) => Len(heap) < MaxCreateMeas
        /\ create_measurement(s, "N1", et, mt, One, One)

CreateSorted == \E s \in 1..Len(sets) : getSortedMeasurementSet(s)

NextCreate == CreateAny \/ CreateSorted

SpecCreate == Init /\ [][NextCreate]_vars

\* C14: create_measurement fails exactly when element_type is no ElemType
\* member or meas_type is no MeasType member, and then leaves every list and
\* measurement unchanged; otherwise it appends exactly one new measurement of
\* the given element and kinds at the end of the list of its set, whatever
\* the list already holds.
C14_CreateValidatesAndAppends ==
    [][ret'.op = "create_measurement"
       => LET s == ret'.set IN
          /\ ret'.raised <=> (ret'.element_type \notin ElemType
                              \/ ret'.meas_type \notin MeasType)
          /\ ret'.raised => /\ heap' = heap
                            /\ sets' = sets
          /\ ~ret'.raised
             => /\ Len(sets'[s]) = Len(sets[s]) + 1
                /\ SubSeq(sets'[s], 1, Len(sets[s])) = sets[s]
                /\ sets'[s][Len(sets'[s])] \notin 1..Len(heap)
                /\ heap'[sets'[s][Len(sets'[s])]].element = ret'.element
                /\ heap'[sets'[s][Len(sets'[s])]].element_type = ret'.element_type
                /\ heap'[sets'[s][Len(sets'[s])]].meas_type = ret'.meas_type
                /\ Len(heap') = Len(heap) + 1
                /\ \A id \in 1..Len(heap) : heap'[id] = heap[id]
                /\ \A t \in 1..Len(sets) : t # s => sets'[t] = sets[t]]_vars

\* C14 witness: a call with a value that is no MeasType member has just
\* failed on a set that holds two measurements of the same element and kind
C14_Witness ==
    /\ ret.op = "create_measurement" /\ ret.raised
    /\ ret.element_type \in ElemType /\ ret.meas_type \notin MeasType
    /\ Len(sets[ret.set]) = 2
    /\ heap[sets[ret.set][1]].element = heap[sets[ret.set][2]].element
    /\ heap[sets[ret.set][1]].meas_type = heap[sets[ret.set][2]].meas_type
    /\ sets[ret.set][1] # sets[ret.set][2]

(***************************************************************************)
(* SpecFrame: measurements on a node and on a branch, a field pass that    *)
(* gives them standard deviations, and live updates in per-unit and in     *)
(* actual values.                                                          *)
(***************************************************************************)
FrameKinds == {<<"N1", "Vpmu_mag">>, <<"N1", "Vpmu_phase">>, <<"B1", "I_mag">>}

FrameIncoming == {"Vpmu_mag", "Ipmu_mag", "Vpmu_phase"}

FrameCreate ==
    /\ Len(heap) < MaxFrameMeas
    /\ \E c \in FrameKinds :
          create_measurement(1, c[1], KindOf(c[1]), c[2], Frac(-2, 1), Frac(3, 1))

FrameField == meas_creation(1, "normal", <<>>, "field")

FrameUpdate ==
    \E e \in UpdElements, t \in FrameIncoming, pu \in BOOLEAN :
        update_measurement(1, e, t, Num(6), pu)

NextFrame == FrameCreate \/ FrameField \/ FrameUpdate

SpecFrame == Init /\ [][NextFrame]_vars

\* C16: update_measurement leaves the lists of all sets and the number of
\* measurements as they were, changes no field of any measurement other than
\* meas_value and meas_value_act, and changes no measurement that is outside
\* its set or on another element than the named one.
C16_UpdateFrame ==
    [][ret'.op = "update_measurement"
       => /\ sets' = sets
          /\ Len(heap') = Len(heap)
          /\ \A id \in 1..Len(heap) :
                /\ heap'[id] = [heap[id] EXCEPT !.meas_value = heap'[id].meas_value,
                                                !.meas_value_act = heap'[id].meas_value_act]
                /\ (id \notin Range(sets[ret'.set])
                    \/ heap[id].element # ret'.element_uuid) => heap'[id] = heap[id]]_vars

\* C16 witness: after a field pass, an update has written its data into a
\* measurement of the named element while a measurement on another element
\* still shows the value of the pass, and both have a standard deviation
C16_Witness ==
    /\ ret.op = "update_measurement"
    /\ \E i, j \in 1..Len(heap) :
          /\ heap[i].element = ret.element_uuid
          /\ heap[i].meas_value = ret.meas_data
          /\ heap[i].meas_value # heap[i].meas_value_ideal
          /\ heap[i].std_dev # Zero
          /\ heap[j].element # ret.element_uuid
          /\ heap[j].meas_value = heap[j].meas_value_ideal
          /\ heap[j].std_dev # Zero

====
